---- MODULE Spec2Model ----
(***************************************************************************)
(* A model of src/main.py: the step registry and the generator-based       *)
(* pipeline engine built by pipeline(), the three registered steps         *)
(* (validate_user, get_data, delete_data) and the module-level state they  *)
(* act on (audit_log, data_store, roles).                                  *)
(*                                                                         *)
(* A call of execute(data) builds a generator object and runs no code; the *)
(* body runs one loop iteration per pull (next()).  Every generator the    *)
(* caller has built is an element of gens, with the locals of its frame    *)
(* (data, result, the position of the dict iterator) and, as history       *)
(* variables, what the caller saw of it (outcomes), which step functions   *)
(* it called with which argument and result (calls), which audit entries   *)
(* its steps appended (logged), which records of the store its steps       *)
(* changed (changed), how often the caller pulled it before it ended       *)
(* (pulls) and which registry its pulls saw (registry, stable).            *)
(* registered is the history of the add_step calls.                        *)
(*                                                                         *)
(* The timestamp that log_action puts in front of an entry is the wall     *)
(* clock at the time of the call; an entry is modelled by the two parts    *)
(* the program chooses, the user id and the action.                        *)
(***************************************************************************)
EXTENDS Integers, Sequences, FiniteSets, TLC

VARIABLES steps, registered, audit_log, data_store, roles, gens

vars == <<steps, registered, audit_log, data_store, roles, gens>>

(* ------------------------------ bounds --------------------------------- *)

\* How many generators the caller builds in one behaviour.
MaxExec == 2

(* ------------------------------ values --------------------------------- *)

\* Python's None, the "no result" marker of a step.
None == [marker |-> "None"]

\* A local of a generator frame that has not been assigned yet.
Unbound == [marker |-> "unbound"]

\* An empty dict.
EmptyDict == <<>>

host_data ==
    [user_id |-> "102", role |-> "host", target_id |-> "100",
     username |-> "host_user", password |-> "hostpass123"]

hr_data ==
    [user_id |-> "103", role |-> "hr", target_id |-> "100",
     username |-> "hr_user", password |-> "hrpass123"]

\* The payloads the caller passes to execute: the two of the example run and
\* every combination of a role (one of them not in the role table), a target
\* id (one of them not in the store) and credentials on both sides of the
\* two length limits.
PayloadRoles == {"host", "hr", "guest"}

PayloadTargets == {"100", "999"}

PayloadCredentials ==
    {<<"abc", "123456">>, <<"ab", "123456">>, <<"abc", "12345">>}

Payloads ==
    {host_data, hr_data} \cup
    {[user_id |-> "104", role |-> r, target_id |-> t,
      username |-> c[1], password |-> c[2]] :
        r \in PayloadRoles, t \in PayloadTargets, c \in PayloadCredentials}

EssentialFields == {"name", "age", "department"}

ShippedStore ==
    [id \in {"100", "101"} |->
        IF id = "100"
        THEN [name |-> "John Doe", age |-> 30, department |-> "HR"]
        ELSE [name |-> "Jane Smith", age |-> 28, department |-> "Engineering"]]

ShippedRoles ==
    [r \in {"host", "hr"} |->
        IF r = "host"
        THEN [can_delete |-> FALSE, can_get |-> TRUE]
        ELSE [can_delete |-> TRUE, can_get |-> TRUE]]

\* The registry after the three decorated definitions of the module.
ShippedSteps ==
    << <<"validation", "validate_user">>,
       <<"get_data", "get_data">>,
       <<"delete_data", "delete_data">> >>

\* The three registrations that built it.
ShippedRegistration ==
    [order |-> <<"validation", "get_data", "delete_data">>,
     latest |-> [validation |-> "validate_user", get_data |-> "get_data",
                 delete_data |-> "delete_data"]]

(* --------------------------- dict helpers ------------------------------ *)

\* d.get(key, default)
DictGet(d, key, default) == IF key \in DOMAIN d THEN d[key] ELSE default

\* The truth value Python gives a value that is None or a dict.
Truthy(v) == v # None /\ DOMAIN v # {}

(* ------------------------------ steps ---------------------------------- *)

\* What a call of a step function leaves behind: the value it returns (or
\* the exception it raises instead) and the audit log and the store after it.
Returned(value, log, store) ==
    [result |-> value, exc |-> "none", audit_log |-> log, data_store |-> store]

Raised(exception, log, store) ==
    [result |-> None, exc |-> exception, audit_log |-> log, data_store |-> store]

\* Variant: the entry is inserted at the front of the list.
log_action_prepend(log, user_id, action) ==
    <<[user_id |-> user_id, action |-> action]>> \o log

log_action(log, user_id, action) ==
    Append(log, [user_id |-> user_id, action |-> action])

\* Variant: the two length checks joined by "and".
validate_user_and(data, log, store, rolesTable) ==
    IF Len(data.username) < 3 /\ Len(data.password) < 6
    THEN Returned(None, log, store)
    ELSE Returned(data,
                  log_action(log, data.user_id, <<"Validation successful">>),
                  store)

\* Variant: the limits themselves are too short.
validate_user_inclusive(data, log, store, rolesTable) ==
    IF Len(data.username) <= 3 \/ Len(data.password) <= 6
    THEN Returned(None, log, store)
    ELSE Returned(data,
                  log_action(log, data.user_id, <<"Validation successful">>),
                  store)

validate_user(data, log, store, rolesTable) ==
    IF Len(data.username) < 3 \/ Len(data.password) < 6
    THEN Returned(None, log, store)
    ELSE Returned(data,
                  log_action(log, data.user_id, <<"Validation successful">>),
                  store)

\* Variant: the record is read by data_store[target_id], which raises
\* KeyError for an id that is not in the store.
get_data_index(data, log, store, rolesTable) ==
    LET role == DictGet(rolesTable, data.role, EmptyDict)
    IN  IF ~DictGet(role, "can_get", FALSE)
        THEN Returned(None, log, store)
        ELSE IF data.target_id \notin DOMAIN store
             THEN Raised("KeyError", log, store)
             ELSE IF Truthy(store[data.target_id])
                  THEN Returned(data,
                                log_action(log, data.user_id,
                                    <<"Viewed record for user", data.target_id>>),
                                store)
                  ELSE Returned(data, log, store)

\* Variant: the view is logged under the id of the record, not of the user.
get_data_logTarget(data, log, store, rolesTable) ==
    LET role == DictGet(rolesTable, data.role, EmptyDict)
        record == DictGet(store, data.target_id, None)
    IN  IF ~DictGet(role, "can_get", FALSE)
        THEN Returned(None, log, store)
        ELSE IF Truthy(record)
             THEN Returned(data,
                           log_action(log, data.target_id,
                               <<"Viewed record for user", data.target_id>>),
                           store)
             ELSE Returned(data, log, store)

\* Variant: a role without the "can_get" key may view.
get_data_defaultTrue(data, log, store, rolesTable) ==
    LET role == DictGet(rolesTable, data.role, EmptyDict)
        record == DictGet(store, data.target_id, None)
    IN  IF ~DictGet(role, "can_get", TRUE)
        THEN Returned(None, log, store)
        ELSE IF Truthy(record)
             THEN Returned(data,
                           log_action(log, data.user_id,
                               <<"Viewed record for user", data.target_id>>),
                           store)
             ELSE Returned(data, log, store)

get_data(data, log, store, rolesTable) ==
    LET user_id == data.user_id
        target_id == data.target_id
        role == DictGet(rolesTable, data.role, EmptyDict)
        record == DictGet(store, target_id, None)
    IN  IF ~DictGet(role, "can_get", FALSE)
        THEN Returned(None, log, store)
        ELSE IF Truthy(record)
             THEN Returned(data,
                           log_action(log, user_id,
                                      <<"Viewed record for user", target_id>>),
                           store)
             ELSE Returned(data, log, store)

\* Variant: the capability check is missing.
delete_data_noCheck(data, log, store, rolesTable) ==
    LET record == DictGet(store, data.target_id, None)
    IN  IF Truthy(record)
        THEN IF EssentialFields \subseteq DOMAIN record
             THEN Returned(
                      data,
                      log_action(log, data.user_id,
                          <<"Deleted non-essential data for user", data.target_id>>),
                      [store EXCEPT ![data.target_id] =
                          [key \in EssentialFields |-> record[key]]])
             ELSE Raised("KeyError", log, store)
        ELSE Returned(data, log, store)

\* Variant: the record is written back as it is.
delete_data_keepAll(data, log, store, rolesTable) ==
    LET role == DictGet(rolesTable, data.role, EmptyDict)
        record == DictGet(store, data.target_id, None)
    IN  IF ~DictGet(role, "can_delete", FALSE)
        THEN Returned(None, log, store)
        ELSE IF Truthy(record)
             THEN Returned(
                      data,
                      log_action(log, data.user_id,
                          <<"Deleted non-essential data for user", data.target_id>>),
                      [store EXCEPT ![data.target_id] = record])
             ELSE Returned(data, log, store)

\* Variant: the deletion step asks for the capability of the retrieval step.
delete_data_canGet(data, log, store, rolesTable) ==
    LET role == DictGet(rolesTable, data.role, EmptyDict)
        record == DictGet(store, data.target_id, None)
    IN  IF ~DictGet(role, "can_get", FALSE)
        THEN Returned(None, log, store)
        ELSE IF Truthy(record)
             THEN IF EssentialFields \subseteq DOMAIN record
                  THEN Returned(
                           data,
                           log_action(log, data.user_id,
                               <<"Deleted non-essential data for user",
                                 data.target_id>>),
                           [store EXCEPT ![data.target_id] =
                               [key \in EssentialFields |-> record[key]]])
                  ELSE Raised("KeyError", log, store)
             ELSE Returned(data, log, store)

\* Variant: the projection reads each essential field with record.get(key).
delete_data_getKey(data, log, store, rolesTable) ==
    LET role == DictGet(rolesTable, data.role, EmptyDict)
        record == DictGet(store, data.target_id, None)
    IN  IF ~DictGet(role, "can_delete", FALSE)
        THEN Returned(None, log, store)
        ELSE IF Truthy(record)
             THEN Returned(
                      data,
                      log_action(log, data.user_id,
                          <<"Deleted non-essential data for user",
                            data.target_id>>),
                      [store EXCEPT ![data.target_id] =
                          [key \in EssentialFields |->
                              DictGet(record, key, None)]])
             ELSE Returned(data, log, store)

delete_data(data, log, store, rolesTable) ==
    LET user_id == data.user_id
        target_id == data.target_id
        role == DictGet(rolesTable, data.role, EmptyDict)
        record == DictGet(store, target_id, None)
    IN  IF ~DictGet(role, "can_delete", FALSE)
        THEN Returned(None, log, store)
        ELSE IF Truthy(record)
             THEN IF EssentialFields \subseteq DOMAIN record
                  THEN Returned(
                           data,
                           log_action(log, user_id,
                               <<"Deleted non-essential data for user", target_id>>),
                           [store EXCEPT ![target_id] =
                               [key \in EssentialFields |-> record[key]]])
                  ELSE Raised("KeyError", log, store)
             ELSE Returned(data, log, store)

StepFuncs == {"validate_user", "get_data", "delete_data"}

\* step_func(result): the call of the function object a registry entry holds.
CallStep(func, data, log, store, rolesTable) ==
    CASE func = "validate_user" -> validate_user(data, log, store, rolesTable)
      [] func = "get_data" -> get_data(data, log, store, rolesTable)
      [] func = "delete_data" -> delete_data(data, log, store, rolesTable)

(* ----------------------------- registry -------------------------------- *)

StepNames == {"validation", "get_data", "delete_data"}

\* The position of a key in the dict, 0 when it is not a key.
KeyIndex(registry, name) ==
    IF \E i \in 1..Len(registry) : registry[i][1] = name
    THEN CHOOSE i \in 1..Len(registry) : registry[i][1] = name
    ELSE 0

\* Variant: a new key goes to the front of the dict.
SetItem_front(registry, name, func) ==
    IF KeyIndex(registry, name) = 0
    THEN <<<<name, func>>>> \o registry
    ELSE [registry EXCEPT ![KeyIndex(registry, name)] = <<name, func>>]

\* Variant: an old key is deleted and set again, which moves it to the end.
SetItem_moveToEnd(registry, name, func) ==
    Append(SelectSeq(registry, LAMBDA e : e[1] # name), <<name, func>>)

\* steps[name] = func: a new key goes to the end, an old key keeps its place.
SetItem(registry, name, func) ==
    IF KeyIndex(registry, name) = 0
    THEN Append(registry, <<name, func>>)
    ELSE [registry EXCEPT ![KeyIndex(registry, name)] = <<name, func>>]

\* The history of the registrations: the names in the order in which each was
\* first registered, and the function most recently registered under each.
Registration(order, latest) == [order |-> order, latest |-> latest]

Register(history, name, func) ==
    Registration(
        IF \E i \in 1..Len(history.order) : history.order[i] = name
        THEN history.order
        ELSE Append(history.order, name),
        [n \in DOMAIN history.latest \cup {name} |->
            IF n = name THEN func ELSE history.latest[n]])

\* @add_step(name) applied to a function.
AddStep(name, func) ==
    /\ steps' = SetItem(steps, name, func)
    /\ registered' = Register(registered, name, func)
    /\ UNCHANGED <<audit_log, data_store, roles, gens>>

(* ------------------------------ engine --------------------------------- *)

\* Variant: one dict iterator, built in pipeline(), is shared by the
\* executions, so that a new one goes on where the last one stands.
NewGenerator_sharedIterator(data) ==
    [state |-> "created", data |-> data, result |-> Unbound,
     it_pos |-> IF gens = <<>> THEN 0 ELSE gens[Len(gens)].it_pos,
     it_used |-> 0, exc |-> "none",
     outcomes |-> <<>>, calls |-> <<>>, logged |-> <<>>, changed |-> {},
     pulls |-> 0, registry |-> <<>>, stable |-> TRUE]

\* execute(data): the generator object, none of its body run.
NewGenerator(data) ==
    [state |-> "created", data |-> data, result |-> Unbound,
     it_pos |-> 0, it_used |-> 0, exc |-> "none",
     outcomes |-> <<>>, calls |-> <<>>, logged |-> <<>>, changed |-> {},
     pulls |-> 0, registry |-> <<>>, stable |-> TRUE]

\* The generator after its frame has ended, by return or by an exception.
Finished(g, exception) == [g EXCEPT !.state = "done", !.exc = exception]

\* What a pull leaves behind: the generator, the audit log and the store.
Resumed(g, log, store) == [gen |-> g, audit_log |-> log, data_store |-> store]

\* Variant: the return after "yield False" is missing, and the loop goes on
\* with the payload it had.
LoopStep_noReturn(g, registry, log, store, rolesTable) ==
    IF g.it_used # Len(registry)
    THEN Resumed(Finished(g, "RuntimeError"), log, store)
    ELSE IF g.it_pos >= Len(registry)
    THEN Resumed(Finished(g, "none"), log, store)
    ELSE LET step_name == registry[g.it_pos + 1][1]
             step_func == registry[g.it_pos + 1][2]
             r == CallStep(step_func, g.result, log, store, rolesTable)
             appended == SubSeq(r.audit_log, Len(log) + 1, Len(r.audit_log))
             called == [g EXCEPT
                          !.it_pos = g.it_pos + 1,
                          !.calls = Append(g.calls,
                                       [name |-> step_name, func |-> step_func,
                                        arg |-> g.result, ret |-> r.result,
                                        exc |-> r.exc, logged |-> appended]),
                          !.logged = g.logged \o appended,
                          !.changed = g.changed \cup
                                       {id \in DOMAIN store :
                                           r.data_store[id] # store[id]}]
         IN  Resumed(IF r.exc # "none"
                     THEN Finished(called, r.exc)
                     ELSE [called EXCEPT
                             !.state = "suspended",
                             !.result = IF r.result = None THEN g.result
                                        ELSE r.result,
                             !.outcomes = Append(g.outcomes, r.result # None)],
                     r.audit_log, r.data_store)

\* Variant: when a step returns None, what the execution appended to the
\* audit log is taken back before FALSE is yielded.
LoopStep_rollback(g, registry, log, store, rolesTable) ==
    IF g.outcomes # <<>> /\ ~g.outcomes[Len(g.outcomes)]
    THEN Resumed(Finished(g, "none"), log, store)
    ELSE IF g.it_used # Len(registry)
    THEN Resumed(Finished(g, "RuntimeError"), log, store)
    ELSE IF g.it_pos >= Len(registry)
    THEN Resumed(Finished(g, "none"), log, store)
    ELSE LET step_name == registry[g.it_pos + 1][1]
             step_func == registry[g.it_pos + 1][2]
             r == CallStep(step_func, g.result, log, store, rolesTable)
             appended == SubSeq(r.audit_log, Len(log) + 1, Len(r.audit_log))
             called == [g EXCEPT
                          !.it_pos = g.it_pos + 1,
                          !.calls = Append(g.calls,
                                       [name |-> step_name, func |-> step_func,
                                        arg |-> g.result, ret |-> r.result,
                                        exc |-> r.exc, logged |-> appended]),
                          !.logged = g.logged \o appended,
                          !.changed = g.changed \cup
                                       {id \in DOMAIN store :
                                           r.data_store[id] # store[id]}]
         IN  Resumed(IF r.exc # "none"
                     THEN Finished(called, r.exc)
                     ELSE [called EXCEPT
                             !.state = "suspended",
                             !.result = r.result,
                             !.outcomes = Append(g.outcomes, r.result # None)],
                     IF r.exc = "none" /\ r.result = None
                     THEN SubSeq(log, 1, Len(log) - Len(g.logged))
                     ELSE r.audit_log,
                     r.data_store)

\* Variant: result is one variable of pipeline(), shared by the executions,
\* so that a step is called with what the execution built last has got.
LoopStep_sharedResult(g, registry, log, store, rolesTable) ==
    IF g.outcomes # <<>> /\ ~g.outcomes[Len(g.outcomes)]
    THEN Resumed(Finished(g, "none"), log, store)
    ELSE IF g.it_used # Len(registry)
    THEN Resumed(Finished(g, "RuntimeError"), log, store)
    ELSE IF g.it_pos >= Len(registry)
    THEN Resumed(Finished(g, "none"), log, store)
    ELSE LET step_name == registry[g.it_pos + 1][1]
             step_func == registry[g.it_pos + 1][2]
             last == gens[Len(gens)].result
             shared == IF last \in {Unbound, None} THEN g.result ELSE last
             r == CallStep(step_func, shared, log, store, rolesTable)
             appended == SubSeq(r.audit_log, Len(log) + 1, Len(r.audit_log))
             called == [g EXCEPT
                          !.it_pos = g.it_pos + 1,
                          !.calls = Append(g.calls,
                                       [name |-> step_name, func |-> step_func,
                                        arg |-> shared, ret |-> r.result,
                                        exc |-> r.exc, logged |-> appended]),
                          !.logged = g.logged \o appended,
                          !.changed = g.changed \cup
                                       {id \in DOMAIN store :
                                           r.data_store[id] # store[id]}]
         IN  Resumed(IF r.exc # "none"
                     THEN Finished(called, r.exc)
                     ELSE [called EXCEPT
                             !.state = "suspended",
                             !.result = r.result,
                             !.outcomes = Append(g.outcomes, r.result # None)],
                     r.audit_log, r.data_store)

\* The frame runs from where it stands to its next yield, its return or an
\* exception: after "yield False" comes the return, after "yield True" (and
\* at the start) the head of the for statement, which asks the dict iterator
\* for the next item and calls the step.
LoopStep(g, registry, log, store, rolesTable) ==
    IF g.outcomes # <<>> /\ ~g.outcomes[Len(g.outcomes)]
    THEN Resumed(Finished(g, "none"), log, store)
    ELSE IF g.it_used # Len(registry)
    THEN \* dictionary changed size during iteration
         Resumed(Finished(g, "RuntimeError"), log, store)
    ELSE IF g.it_pos >= Len(registry)
    THEN Resumed(Finished(g, "none"), log, store)
    ELSE LET step_name == registry[g.it_pos + 1][1]
             step_func == registry[g.it_pos + 1][2]
             r == CallStep(step_func, g.result, log, store, rolesTable)
             appended == SubSeq(r.audit_log, Len(log) + 1, Len(r.audit_log))
             called == [g EXCEPT
                          !.it_pos = g.it_pos + 1,
                          !.calls = Append(g.calls,
                                       [name |-> step_name, func |-> step_func,
                                        arg |-> g.result, ret |-> r.result,
                                        exc |-> r.exc, logged |-> appended]),
                          !.logged = g.logged \o appended,
                          !.changed = g.changed \cup
                                       {id \in DOMAIN store :
                                           r.data_store[id] # store[id]}]
         IN  Resumed(IF r.exc # "none"
                     THEN Finished(called, r.exc)
                     ELSE [called EXCEPT
                             !.state = "suspended",
                             !.result = r.result,
                             !.outcomes = Append(g.outcomes, r.result # None)],
                     r.audit_log, r.data_store)

\* Variant: a generator that has ended starts again from the first step.
Resume_restart(g, registry, log, store, rolesTable) ==
    CASE g.state = "created" ->
            LoopStep([g EXCEPT !.result = g.data, !.it_used = Len(registry),
                               !.registry = registry],
                     registry, log, store, rolesTable)
      [] g.state = "suspended" ->
            LET same == g.stable /\ registry = g.registry
            IN  LoopStep([g EXCEPT !.stable = same,
                                   !.registry = IF same THEN g.registry ELSE <<>>],
                         registry, log, store, rolesTable)
      [] g.state = "done" ->
            LoopStep([g EXCEPT !.result = g.data, !.it_used = Len(registry),
                               !.it_pos = 0, !.outcomes = <<>>],
                     registry, log, store, rolesTable)

\* Variant: the loop runs over a copy of the registry taken at the first
\* pull, as for ... in list(steps.items()) would.
Resume_snapshot(g, registry, log, store, rolesTable) ==
    CASE g.state = "created" ->
            LoopStep([g EXCEPT !.result = g.data, !.it_used = Len(registry),
                               !.registry = registry],
                     registry, log, store, rolesTable)
      [] g.state = "suspended" ->
            LoopStep(g, g.registry, log, store, rolesTable)
      [] g.state = "done" -> Resumed(g, log, store)

\* next(generator).  The first pull binds result and builds the iterator of
\* steps.items(); a pull of a generator that has ended changes nothing.  The
\* frame notes the registry it saw at its first pull as long as every later
\* pull sees the same.
Resume(g, registry, log, store, rolesTable) ==
    CASE g.state = "created" ->
            LoopStep([g EXCEPT !.result = g.data, !.it_used = Len(registry),
                               !.registry = registry],
                     registry, log, store, rolesTable)
      [] g.state = "suspended" ->
            LET same == g.stable /\ registry = g.registry
            IN  LoopStep([g EXCEPT !.stable = same,
                                   !.registry = IF same THEN g.registry ELSE <<>>],
                         registry, log, store, rolesTable)
      [] g.state = "done" -> Resumed(g, log, store)

\* Variant: execute runs the generator to its first yield before it hands
\* it to the caller.
Execute_primed(data) ==
    /\ Len(gens) < MaxExec
    /\ LET r == Resume(NewGenerator(data), steps, audit_log, data_store, roles)
       IN  /\ gens' = Append(gens, r.gen)
           /\ audit_log' = r.audit_log
           /\ data_store' = r.data_store
    /\ UNCHANGED <<steps, registered, roles>>

Execute(data) ==
    /\ Len(gens) < MaxExec
    /\ gens' = Append(gens, NewGenerator(data))
    /\ UNCHANGED <<steps, registered, audit_log, data_store, roles>>

\* Variant: the engine takes each step out of the registry as it runs it.
Pull_consume(i) ==
    /\ i \in 1..Len(gens)
    /\ LET r == Resume(gens[i], steps, audit_log, data_store, roles)
       IN  /\ gens' = [gens EXCEPT ![i] =
                        [r.gen EXCEPT !.pulls = IF gens[i].state = "done"
                                                THEN @ ELSE @ + 1]]
           /\ audit_log' = r.audit_log
           /\ data_store' = r.data_store
           /\ steps' = IF Len(r.gen.calls) > Len(gens[i].calls)
                       THEN Tail(steps) ELSE steps
    /\ UNCHANGED <<registered, roles>>

Pull(i) ==
    /\ i \in 1..Len(gens)
    /\ LET r == Resume(gens[i], steps, audit_log, data_store, roles)
       IN  /\ gens' = [gens EXCEPT ![i] =
                        [r.gen EXCEPT !.pulls = IF gens[i].state = "done"
                                                THEN @ ELSE @ + 1]]
           /\ audit_log' = r.audit_log
           /\ data_store' = r.data_store
    /\ UNCHANGED <<steps, registered, roles>>

(* -------------------------- specifications ----------------------------- *)

\* The module as shipped, after its definitions and before the example run.
Init ==
    /\ steps = ShippedSteps
    /\ registered = ShippedRegistration
    /\ audit_log = <<>>
    /\ data_store = ShippedStore
    /\ roles = ShippedRoles
    /\ gens = <<>>

Next ==
    \/ \E data \in Payloads : Execute(data)
    \/ \E i \in 1..MaxExec : Pull(i)

Spec == Init /\ [][Next]_vars

\* The same module over a store whose records may hold non-essential fields,
\* the data delete_data is there to prune.
Stores ==
    {ShippedStore,
     [ShippedStore EXCEPT !["100"] = [email |-> "john@example.com"] @@ @,
                          !["101"] = [phone |-> "555-0101"] @@ @]}

StorePayloads ==
    {host_data, hr_data} \cup
    {p \in Payloads : p.username = "abc" /\ p.password = "123456"} \cup
    {[hr_data EXCEPT !.username = "ab"], [hr_data EXCEPT !.password = "12345"]}

InitStore ==
    /\ steps = ShippedSteps
    /\ registered = ShippedRegistration
    /\ audit_log = <<>>
    /\ data_store \in Stores
    /\ roles = ShippedRoles
    /\ gens = <<>>

NextStore ==
    \/ \E data \in StorePayloads : Execute(data)
    \/ \E i \in 1..MaxExec : Pull(i)

SpecStore == InitStore /\ [][NextStore]_vars

\* The engine alone: the registry as pipeline() returns it, empty, and a
\* caller that registers any of the step functions under any name, before
\* and between the pulls of the one execution it runs.
EnginePayloads ==
    {host_data, hr_data,
     [host_data EXCEPT !.username = "ab"],
     [host_data EXCEPT !.role = "guest"]}

InitEngine ==
    /\ steps = <<>>
    /\ registered = Registration(<<>>, <<>>)
    /\ audit_log = <<>>
    /\ data_store = ShippedStore
    /\ roles = ShippedRoles
    /\ gens = <<>>

NextEngine ==
    \/ \E name \in StepNames, func \in StepFuncs : AddStep(name, func)
    \/ \E data \in EnginePayloads : gens = <<>> /\ Execute(data)
    \/ Pull(1)

SpecEngine == InitEngine /\ [][NextEngine]_vars

\* The module with its three decorated definitions in any order, over the
\* stores above: the registries in which a step that writes comes before a
\* step that fails.
Orders ==
    {o \in {<<a, b, c>> : a, b, c \in {ShippedSteps[k] : k \in 1..3}} :
        Cardinality({o[1], o[2], o[3]}) = 3}

OrderPayloads ==
    {host_data, hr_data, [hr_data EXCEPT !.username = "ab"]}

InitOrder ==
    /\ steps \in Orders
    /\ registered =
          Registration([j \in 1..3 |-> steps[j][1]], ShippedRegistration.latest)
    /\ audit_log = <<>>
    /\ data_store \in Stores
    /\ roles = ShippedRoles
    /\ gens = <<>>

NextOrder ==
    \/ \E data \in OrderPayloads : Execute(data)
    \/ \E i \in 1..MaxExec : Pull(i)

SpecOrder == InitOrder /\ [][NextOrder]_vars

\* The module over the records a store can hold: the shipped ones, records
\* with fields beyond the essential ones, a record without two of the
\* essential fields, and an empty record.
Records ==
    Stores \cup
    {[ShippedStore EXCEPT !["100"] =
         [name |-> "John Doe", email |-> "john@example.com"]],
     [ShippedStore EXCEPT !["100"] = EmptyDict]}

RecordPayloads ==
    {host_data, hr_data,
     [hr_data EXCEPT !.target_id = "999"],
     [hr_data EXCEPT !.role = "guest"],
     [hr_data EXCEPT !.password = "12345"]}

InitRecords ==
    /\ steps = ShippedSteps
    /\ registered = ShippedRegistration
    /\ audit_log = <<>>
    /\ data_store \in Records
    /\ roles = ShippedRoles
    /\ gens = <<>>

NextRecords ==
    \/ \E data \in RecordPayloads : Execute(data)
    \/ \E i \in 1..MaxExec : Pull(i)

SpecRecords == InitRecords /\ [][NextRecords]_vars

\* The module as shipped and a caller who calls execute once and registers
\* afterwards only: any step function under a shipped name or a new one,
\* before and between the pulls.
LateNames == StepNames \cup {"audit"}

LatePayloads == {host_data, hr_data, [hr_data EXCEPT !.username = "ab"]}

NextLate ==
    \/ \E data \in LatePayloads : gens = <<>> /\ Execute(data)
    \/ \E name \in LateNames, func \in StepFuncs :
          gens # <<>> /\ AddStep(name, func)
    \/ Pull(1)

SpecLate == Init /\ [][NextLate]_vars

(* ------------------------------ claims --------------------------------- *)

\* The caller pulled the generator until it ended, and it ended by return.
Drained(g) == g.state = "done" /\ g.exc = "none"

\* The positions of a registry whose function returns None for a payload.
\* (A step returns the payload it was given or None, so every step of an
\* execution is called with the initial payload.)
NonePositions(registry, data) ==
    {k \in 1..Len(registry) :
        LET r == CallStep(registry[k][2], data, audit_log, data_store, roles)
        IN  r.exc = "none" /\ r.result = None}

Min(S) == CHOOSE k \in S : \A j \in S : k <= j

\* The first n steps of a registry were called, in order, and nothing else.
CalledFirst(g, registry, n) ==
    /\ Len(g.calls) = n
    /\ \A j \in 1..n : /\ g.calls[j].name = registry[j][1]
                       /\ g.calls[j].func = registry[j][2]

\* C1: when step k is the first of the N registered steps to return None, a
\* drained execution yields k elements, k-1 times TRUE and then FALSE, after
\* calling the steps 1..k and none of the steps k+1..N.
C1_ShortCircuit ==
    \A i \in 1..Len(gens) :
        LET g == gens[i]
            fails == NonePositions(g.registry, g.data)
        IN  (Drained(g) /\ g.stable /\ fails # {}) =>
                /\ g.outcomes = [j \in 1..Min(fails) |-> j < Min(fails)]
                /\ CalledFirst(g, g.registry, Min(fails))

\* A drained execution of three steps that stopped at the second.
C1_Witness ==
    \E i \in 1..Len(gens) :
        /\ Drained(gens[i]) /\ gens[i].stable
        /\ Len(gens[i].registry) = 3
        /\ NonePositions(gens[i].registry, gens[i].data) # {}
        /\ gens[i].outcomes = <<TRUE, FALSE>>
        /\ Len(gens[i].calls) = 2

\* C2: when none of the N >= 0 registered steps returns None, a drained
\* execution yields N times TRUE, the i-th element by calling the i-th step
\* in the order of registration; with no step registered it yields nothing
\* and calls nothing.
C2_AllSucceed ==
    \A i \in 1..Len(gens) :
        LET g == gens[i]
            N == Len(g.registry)
        IN  (Drained(g) /\ g.stable /\ NonePositions(g.registry, g.data) = {}) =>
                /\ g.outcomes = [j \in 1..N |-> TRUE]
                /\ CalledFirst(g, g.registry, N)
                /\ N <= Len(registered.order)
                /\ \A j \in 1..N : g.calls[j].name = registered.order[j]
                /\ N = 0 => g.outcomes = <<>> /\ g.calls = <<>>

\* A drained execution of three steps that all succeeded.
C2_Witness ==
    \E i \in 1..Len(gens) :
        /\ Drained(gens[i]) /\ gens[i].stable
        /\ Len(gens[i].registry) = 3
        /\ gens[i].outcomes = <<TRUE, TRUE, TRUE>>
        /\ Len(gens[i].calls) = 3

RECURSIVE SumLogged(_)
SumLogged(n) == IF n = 0 THEN 0 ELSE Len(gens[n].logged) + SumLogged(n - 1)

\* C3: execute(payload) calls no step, and a generator the caller pulled j
\* times has called j steps (one less when the last pull ended it); the
\* audit log holds what the pulled steps appended and nothing else, and the
\* store is as it was while no pulled step changed it.
C3_Lazy ==
    /\ \A i \in 1..Len(gens) :
          LET g == gens[i]
          IN  /\ g.state = "created" => g.pulls = 0 /\ g.calls = <<>>
              /\ g.state = "suspended" => Len(g.calls) = g.pulls
              /\ g.state = "done" => Len(g.calls) = g.pulls - 1
              /\ Len(g.outcomes) = Len(g.calls)
              /\ g.pulls = 1 => Len(g.calls) <= 1
    /\ Len(audit_log) = SumLogged(Len(gens))
    /\ (\A i \in 1..Len(gens) : gens[i].changed = {}) => data_store \in Stores

\* One pull of an execution over three steps: one step called, one entry.
C3_Witness ==
    \E i \in 1..Len(gens) :
        /\ gens[i].state = "suspended" /\ gens[i].pulls = 1
        /\ Len(gens[i].registry) = 3 /\ steps = gens[i].registry
        /\ Len(gens[i].calls) = 1
        /\ audit_log = gens[i].logged /\ Len(audit_log) = 1

\* C4: registering under a name that is registered replaces the function,
\* leaves the number of steps as it is and the name where it was first
\* registered: the registry is the first-registration order of the names,
\* each with its latest function, and executions call that function at that
\* position.
C4_Replace ==
    /\ Len(steps) = Len(registered.order)
    /\ \A j \in 1..Len(steps) :
          steps[j] = <<registered.order[j], registered.latest[registered.order[j]]>>
    /\ \A i \in 1..Len(gens) :
          /\ \A j \in 1..Len(gens[i].calls) :
                gens[i].calls[j].name = registered.order[j]
          /\ (gens[i].stable /\ gens[i].registry = steps) =>
                \A j \in 1..Len(gens[i].calls) :
                    gens[i].calls[j].func =
                        registered.latest[registered.order[j]]

\* "validation" was called with one function and holds another now; three
\* steps before and after, and the execution went on to the end.
C4_Witness ==
    /\ Len(steps) = 3
    /\ steps[1] = <<"validation", "get_data">>
    /\ \E i \in 1..Len(gens) :
          /\ Drained(gens[i]) /\ ~gens[i].stable
          /\ Len(gens[i].calls) = 3
          /\ gens[i].calls[1].name = "validation"
          /\ gens[i].calls[1].func = "validate_user"

\* C5: two drained executions of the same payload over the same registry
\* yield the same outcomes.
C5_Rerun ==
    \A i, j \in 1..Len(gens) :
        (/\ Drained(gens[i]) /\ Drained(gens[j])
         /\ gens[i].data = gens[j].data
         /\ gens[i].stable /\ gens[j].stable
         /\ gens[i].registry = gens[j].registry) =>
            gens[i].outcomes = gens[j].outcomes

\* Two drained executions of one payload whose steps had no effect on the
\* log or the store.
C5_Witness ==
    /\ Len(gens) >= 2
    /\ Drained(gens[1]) /\ Drained(gens[2])
    /\ gens[1].data = gens[2].data
    /\ gens[1].outcomes # <<>>
    /\ audit_log = <<>>
    /\ gens[1].changed = {} /\ gens[2].changed = {}


\* What a payload and the role table say about an execution.
PassesValidation(d) == Len(d.username) >= 3 /\ Len(d.password) >= 6

Grants(role, capability) ==
    role \in DOMAIN roles /\ roles[role][capability]

TargetPresent(d) ==
    d.target_id \in DOMAIN data_store /\ DOMAIN data_store[d.target_id] # {}

ValidationEntry(d) ==
    [user_id |-> d.user_id, action |-> <<"Validation successful">>]

ViewEntry(d) ==
    [user_id |-> d.user_id,
     action |-> <<"Viewed record for user", d.target_id>>]

DeletionEntry(d) ==
    [user_id |-> d.user_id,
     action |-> <<"Deleted non-essential data for user", d.target_id>>]

ViewOnly(d) ==
    PassesValidation(d) /\ Grants(d.role, "can_get") /\ ~Grants(d.role, "can_delete")

ViewAndDelete(d) ==
    PassesValidation(d) /\ Grants(d.role, "can_get") /\ Grants(d.role, "can_delete")

\* C6 as stated: a drained execution of a payload that passes validation and
\* whose role grants view but not delete yields TRUE, TRUE, FALSE, appends
\* the validation entry and the view entry, and changes no record.
C6_ScenarioA_AnyTarget ==
    \A i \in 1..Len(gens) :
        (Drained(gens[i]) /\ ViewOnly(gens[i].data)) =>
            /\ gens[i].outcomes = <<TRUE, TRUE, FALSE>>
            /\ gens[i].logged =
                  <<ValidationEntry(gens[i].data), ViewEntry(gens[i].data)>>
            /\ gens[i].changed = {}

\* C6 amended: the same for a payload whose target id is in the store.
C6_ScenarioA ==
    \A i \in 1..Len(gens) :
        (/\ Drained(gens[i]) /\ ViewOnly(gens[i].data)
         /\ TargetPresent(gens[i].data)) =>
            /\ gens[i].outcomes = <<TRUE, TRUE, FALSE>>
            /\ gens[i].logged =
                  <<ValidationEntry(gens[i].data), ViewEntry(gens[i].data)>>
            /\ gens[i].changed = {}

\* The host's execution drained over a record that holds more than the
\* essential fields.
C6_Witness ==
    \E i \in 1..Len(gens) :
        /\ Drained(gens[i]) /\ gens[i].data = host_data
        /\ Len(gens[i].calls) = 3
        /\ DOMAIN data_store["100"] # EssentialFields

\* C7: a drained execution of a payload that passes validation, whose role
\* grants view and delete and whose target id is in the store yields TRUE,
\* TRUE, TRUE, appends the validation, view and deletion entries in that
\* order, and leaves the target record with the fields name, age and
\* department, each with the value it had.
C7_ScenarioB ==
    \A i \in 1..Len(gens) :
        LET d == gens[i].data
        IN  (Drained(gens[i]) /\ ViewAndDelete(d) /\ TargetPresent(d)) =>
                /\ gens[i].outcomes = <<TRUE, TRUE, TRUE>>
                /\ gens[i].logged =
                      <<ValidationEntry(d), ViewEntry(d), DeletionEntry(d)>>
                /\ DOMAIN data_store[d.target_id] = EssentialFields
                /\ \A key \in EssentialFields :
                      data_store[d.target_id][key] = ShippedStore[d.target_id][key]

\* The execution of hr_data drained, and its deletion step pruned record 100.
C7_Witness ==
    \E i \in 1..Len(gens) :
        /\ Drained(gens[i]) /\ gens[i].data = hr_data
        /\ gens[i].changed = {"100"}
        /\ Len(gens[i].logged) = 3

\* C8: a drained execution of a payload whose username has fewer than 3
\* characters yields FALSE and nothing else, appends nothing to the audit
\* log, changes no record and calls the validation step alone.
C8_ScenarioC ==
    \A i \in 1..Len(gens) :
        (Len(gens[i].data.username) < 3 /\ gens[i].state # "created") =>
            /\ gens[i].outcomes = <<FALSE>>
            /\ gens[i].logged = <<>>
            /\ gens[i].changed = {}
            /\ Len(gens[i].calls) = 1
            /\ gens[i].calls[1].func = "validate_user"
            /\ gens[i].exc = "none"

\* A drained execution of a 2-character username with a role that may do
\* everything and a password that is long enough.
C8_Witness ==
    \E i \in 1..Len(gens) :
        /\ Drained(gens[i])
        /\ gens[i].data.username = "ab" /\ gens[i].data.role = "hr"
        /\ gens[i].data.target_id = "100"
        /\ Len(gens[i].data.password) >= 6
        /\ gens[i].outcomes = <<FALSE>>

\* C9: for a payload that passes validation, whose role grants view and whose
\* target id is not in the store, the validation and the retrieval elements
\* are TRUE, the retrieval step returns the payload it was given, no record
\* changes and no exception ends the execution; the deletion element is TRUE
\* when the role grants delete (and FALSE when it does not).
C9_ScenarioD ==
    \A i \in 1..Len(gens) :
        LET g == gens[i]
            d == g.data
        IN  (/\ PassesValidation(d) /\ Grants(d.role, "can_get")
             /\ d.target_id \notin DOMAIN data_store) =>
                /\ g.exc = "none"
                /\ g.changed = {}
                /\ \A j \in 1..Len(g.outcomes) :
                      g.outcomes[j] = (j < 3 \/ Grants(d.role, "can_delete"))
                /\ Len(g.calls) >= 2 =>
                      /\ g.calls[2].func = "get_data"
                      /\ g.calls[2].arg = d /\ g.calls[2].ret = d
                /\ Drained(g) => Len(g.outcomes) = 3

\* A drained execution by a role with both capabilities on an absent id.
C9_Witness ==
    \E i \in 1..Len(gens) :
        /\ Drained(gens[i])
        /\ gens[i].data.role = "hr" /\ gens[i].data.target_id = "999"
        /\ gens[i].outcomes = <<TRUE, TRUE, TRUE>>
        /\ gens[i].logged = <<ValidationEntry(gens[i].data)>>

\* The calls of the retrieval and the deletion step that passed the
\* capability check and returned the payload.
PermittedCalls(g) ==
    {j \in 1..Len(g.calls) :
        /\ g.calls[j].func \in {"get_data", "delete_data"}
        /\ g.calls[j].exc = "none"
        /\ g.calls[j].ret # None}

\* C10 as stated: every call of the retrieval or the deletion step that
\* passes its capability check and returns the payload appends one audit
\* entry, for the acting user.
C10_EveryPermittedCallAudits ==
    \A i \in 1..Len(gens) : \A j \in PermittedCalls(gens[i]) :
        LET c == gens[i].calls[j]
        IN  /\ Len(c.logged) = 1
            /\ c.logged[1].user_id = c.arg.user_id

\* C10 amended: such a call appends one audit entry, for the acting user and
\* about the target id, when the target id is in the store, and none when it
\* is not.
C10_PermittedCallAuditsPresentRecord ==
    \A i \in 1..Len(gens) : \A j \in PermittedCalls(gens[i]) :
        LET c == gens[i].calls[j]
        IN  IF TargetPresent(c.arg)
            THEN c.logged = <<IF c.func = "get_data"
                              THEN ViewEntry(c.arg) ELSE DeletionEntry(c.arg)>>
            ELSE c.logged = <<>>

\* One execution whose retrieval and deletion each appended their entry, and
\* one whose retrieval found no record and appended none.
C10_Witness ==
    \E i, k \in 1..Len(gens) :
        /\ PermittedCalls(gens[i]) = {2, 3}
        /\ gens[i].calls[3].logged = <<DeletionEntry(gens[i].data)>>
        /\ 2 \in PermittedCalls(gens[k])
        /\ gens[k].calls[2].logged = <<>>

\* C11: a role that is not in the role table has no capability: an execution
\* of a payload that passes validation and carries such a role yields TRUE
\* and then FALSE, never calls the deletion step, changes no record and
\* appends the validation entry alone.
C11_UnknownRole ==
    \A i \in 1..Len(gens) :
        LET g == gens[i]
            d == g.data
        IN  (PassesValidation(d) /\ d.role \notin DOMAIN roles) =>
                /\ ~Grants(d.role, "can_get") /\ ~Grants(d.role, "can_delete")
                /\ g.exc = "none"
                /\ \A j \in 1..Len(g.outcomes) : g.outcomes[j] = (j = 1)
                /\ Len(g.calls) <= 2
                /\ \A j \in 1..Len(g.calls) : g.calls[j].func # "delete_data"
                /\ g.changed = {}
                /\ g.state # "created" => g.logged = <<ValidationEntry(d)>>
                /\ Drained(g) => g.outcomes = <<TRUE, FALSE>>

\* A drained execution of a validated payload with the role "guest", for a
\* record that is in the store.
C11_Witness ==
    \E i \in 1..Len(gens) :
        /\ Drained(gens[i])
        /\ gens[i].data.role = "guest" /\ gens[i].data.target_id = "100"
        /\ gens[i].outcomes = <<TRUE, FALSE>>
        /\ audit_log = <<ValidationEntry(gens[i].data)>>

\* The entries a step of the behaviour added to what generator i logged.
NewlyLogged(i) ==
    SubSeq(gens'[i].logged, Len(gens[i].logged) + 1, Len(gens'[i].logged))

\* C12: the audit log only grows at its end: every step leaves the log it
\* found as a prefix of the log it leaves, and what it adds are the entries
\* of the one step function called in it, so that the entries stand in the
\* order of the calls, whichever executions the calls belong to.
C12_AppendOnly ==
    [][/\ Len(audit_log') >= Len(audit_log)
       /\ SubSeq(audit_log', 1, Len(audit_log)) = audit_log
       /\ \A i \in 1..Len(gens) :
             gens'[i].logged # gens[i].logged =>
                 /\ Len(gens'[i].calls) = Len(gens[i].calls) + 1
                 /\ audit_log' = audit_log \o NewlyLogged(i)
                 /\ NewlyLogged(i) =
                       gens'[i].calls[Len(gens'[i].calls)].logged
       /\ audit_log' # audit_log =>
             \E i \in 1..Len(gens) : gens'[i].logged # gens[i].logged]_vars

\* Two executions pulled in turn: the first, the second, the first again.
C12_Witness ==
    /\ Len(gens) = 2
    /\ gens[1].data.user_id # gens[2].data.user_id
    /\ Len(gens[1].logged) = 2 /\ Len(gens[2].logged) = 1
    /\ gens[2].state = "suspended"
    /\ audit_log = <<gens[1].logged[1], gens[2].logged[1], gens[1].logged[2]>>

\* C13: the validation step returns None exactly when the username has fewer
\* than 3 characters or the password fewer than 6; when it passes it returns
\* the payload it was given and appends one entry, for the acting user, and
\* when it fails it appends none.  It never touches the store.
C13_Validation ==
    \A i \in 1..Len(gens) : \A j \in 1..Len(gens[i].calls) :
        LET c == gens[i].calls[j]
        IN  c.func = "validate_user" =>
                /\ c.exc = "none"
                /\ (c.ret = None) <=>
                      (Len(c.arg.username) < 3 \/ Len(c.arg.password) < 6)
                /\ c.ret # None =>
                      /\ c.ret = c.arg
                      /\ c.logged = <<ValidationEntry(c.arg)>>
                /\ c.ret = None => c.logged = <<>>
                /\ j = 1 => gens[i].changed = {}

\* A 3-character username with a 6-character password passed, and a
\* 5-character password did not.
C13_Witness ==
    \E i, k \in 1..Len(gens) :
        /\ Len(gens[i].data.username) = 3 /\ Len(gens[i].data.password) = 6
        /\ gens[i].outcomes = <<TRUE>>
        /\ Len(gens[k].data.username) = 3 /\ Len(gens[k].data.password) = 5
        /\ gens[k].outcomes = <<FALSE>>

RECURSIVE IsSubseq(_, _)
IsSubseq(s, t) ==
    IF s = <<>> THEN TRUE
    ELSE IF t = <<>> THEN FALSE
    ELSE IF Head(s) = Head(t) THEN IsSubseq(Tail(s), Tail(t))
    ELSE IsSubseq(s, Tail(t))

\* The execution yielded FALSE.
Failed(g) == g.outcomes # <<>> /\ ~g.outcomes[Len(g.outcomes)]

\* C14: nothing is rolled back when an execution fails: the entries its steps
\* appended are in the audit log, in their order, the log holds as many
\* entries as the steps of all executions appended, and the records its steps
\* pruned are pruned.
C14_NoRollback ==
    /\ Len(audit_log) = SumLogged(Len(gens))
    /\ \A i \in 1..Len(gens) :
          Failed(gens[i]) =>
              /\ IsSubseq(gens[i].logged, audit_log)
              /\ \A id \in gens[i].changed :
                    DOMAIN data_store[id] = EssentialFields

\* A drained execution whose first step pruned record 100 and logged it, and
\* whose later step failed.
C14_Witness ==
    \E i \in 1..Len(gens) :
        /\ Drained(gens[i]) /\ Failed(gens[i])
        /\ gens[i].calls[1].func = "delete_data"
        /\ gens[i].changed = {"100"}
        /\ gens[i].logged # <<>>
        /\ IsSubseq(gens[i].logged, audit_log)
        /\ DOMAIN data_store["100"] = EssentialFields

\* The generator has yielded FALSE or one element for every registered step,
\* or has ended.
Exhausted(g) ==
    \/ g.state = "done"
    \/ g.state = "suspended" /\ (Failed(g) \/ Len(g.outcomes) = Len(steps))

\* C15: an execution yields at most one element per registered step and is
\* exhausted after that many pulls at the latest; the one pull more that the
\* caller needs to see the end ends it, and no pull of an exhausted generator
\* yields an element, calls a step or changes the log, the store, the
\* registry or the roles.
C15_SinglePass ==
    /\ [](\A i \in 1..Len(gens) :
             /\ Len(gens[i].outcomes) <= Len(steps)
             /\ gens[i].pulls <= Len(steps) + 1
             /\ gens[i].pulls >= Len(steps) => Exhausted(gens[i])
             /\ gens[i].pulls = Len(steps) + 1 => gens[i].state = "done")
    /\ [][\A i \in 1..Len(gens) :
             Exhausted(gens[i]) =>
                 /\ gens'[i].outcomes = gens[i].outcomes
                 /\ gens'[i].calls = gens[i].calls
                 /\ gens'[i].state \in {gens[i].state, "done"}
                 /\ gens'[i] # gens[i] =>
                       /\ gens'[i].state = "done" /\ gens'[i].exc = "none"
                       /\ audit_log' = audit_log /\ data_store' = data_store
                       /\ steps' = steps /\ roles' = roles]_vars

\* An execution drained by four pulls after three elements, and one drained
\* by two pulls after FALSE.
C15_Witness ==
    \E i, k \in 1..Len(gens) :
        /\ Drained(gens[i]) /\ gens[i].pulls = 4
        /\ gens[i].outcomes = <<TRUE, TRUE, TRUE>>
        /\ Drained(gens[k]) /\ gens[k].pulls = 2
        /\ gens[k].outcomes = <<FALSE>>

C17_Frame ==
    /\ [](/\ roles = ShippedRoles
          /\ \A i \in 1..Len(gens) : \A j \in 1..Len(gens[i].calls) :
                gens[i].calls[j].ret \in {gens[i].calls[j].arg, None})
    /\ [][/\ gens' # gens =>
                /\ steps' = steps /\ registered' = registered
                /\ roles' = roles
          /\ Len(gens') > Len(gens) =>
                audit_log' = audit_log /\ data_store' = data_store
          /\ (audit_log' # audit_log \/ data_store' # data_store) =>
                \E i \in 1..Len(gens) :
                    /\ Len(gens'[i].calls) = Len(gens[i].calls) + 1
                    /\ audit_log' =
                          audit_log \o gens'[i].calls[Len(gens'[i].calls)].logged]_vars

\* An execution drained over three steps that appended to the log, with the
\* registry it began with.
C17_Witness ==
    \E i \in 1..Len(gens) :
        /\ Drained(gens[i]) /\ gens[i].stable
        /\ Len(gens[i].calls) = 3
        /\ steps = gens[i].registry
        /\ Len(audit_log) = 3
        /\ roles = ShippedRoles

\* C18: with the shipped registry the store keeps its record ids; a record
\* changes only in the step in which the deletion step, the third, is called
\* for a payload that passed validation and whose role may view and delete,
\* and then it is the target record; an execution of any other payload, or
\* one pulled less than three times, changes no record.
C18_WriteAuthority ==
    /\ [](/\ DOMAIN data_store = DOMAIN ShippedStore
          /\ \A i \in 1..Len(gens) :
                LET g == gens[i]
                IN  /\ g.changed # {} =>
                          /\ ViewAndDelete(g.data)
                          /\ Len(g.calls) = 3
                          /\ g.calls[3].func = "delete_data"
                          /\ g.changed = {g.data.target_id}
                    /\ (\/ ~PassesValidation(g.data)
                        \/ ~Grants(g.data.role, "can_get")
                        \/ ~Grants(g.data.role, "can_delete")
                        \/ g.data.role \notin DOMAIN roles
                        \/ g.pulls < 3) => g.changed = {}
          /\ (\A i \in 1..Len(gens) : gens[i].changed = {}) =>
                data_store \in Stores)
    /\ [][data_store' # data_store =>
             \E i \in 1..Len(gens) :
                 /\ Len(gens[i].calls) = 2 /\ Len(gens'[i].calls) = 3
                 /\ gens'[i].calls[3].func = "delete_data"
                 /\ ViewAndDelete(gens[i].data)
                 /\ \A id \in DOMAIN data_store :
                       data_store'[id] # data_store[id] =>
                           id = gens[i].data.target_id]_vars

\* The execution of hr_data pruned record 100; that of host_data, drained as
\* well, changed nothing, and record 101 holds what it held.
C18_Witness ==
    \E i, k \in 1..Len(gens) :
        /\ Drained(gens[i]) /\ gens[i].data = hr_data
        /\ gens[i].changed = {"100"}
        /\ Drained(gens[k]) /\ gens[k].data = host_data
        /\ gens[k].changed = {}
        /\ DOMAIN data_store["101"] # EssentialFields

\* C19: a step in which the deletion step is called with a role that may
\* delete, on a non-empty record that holds the three essential fields,
\* leaves that record as its projection onto name, age and department; a
\* store equal to the shipped store stays equal to it whatever is executed,
\* and a record of exactly the essential fields is left as it is; called on
\* a non-empty record that lacks an essential field, the deletion step
\* raises KeyError: the generator ends with it, yields no outcome for the
\* step, and neither the log nor the store changes.
C19_Projection ==
    [][/\ data_store = ShippedStore => data_store' = ShippedStore
       /\ \A id \in DOMAIN data_store :
             /\ data_store'[id] # data_store[id] =>
                   /\ EssentialFields \subseteq DOMAIN data_store[id]
                   /\ data_store'[id] =
                         [key \in EssentialFields |-> data_store[id][key]]
             /\ DOMAIN data_store[id] = EssentialFields =>
                   data_store'[id] = data_store[id]
       /\ \A i \in 1..Len(gens) :
             LET g == gens[i]
                 h == gens'[i]
                 n == Len(h.calls)
                 id == g.data.target_id
             IN  (/\ n = Len(g.calls) + 1
                  /\ h.calls[n].func = "delete_data"
                  /\ Grants(g.data.role, "can_delete")
                  /\ TargetPresent(g.data)) =>
                     IF EssentialFields \subseteq DOMAIN data_store[id]
                     THEN /\ h.calls[n].exc = "none"
                          /\ h.calls[n].ret = g.data
                          /\ h.outcomes = Append(g.outcomes, TRUE)
                          /\ data_store' =
                                [data_store EXCEPT ![id] =
                                    [key \in EssentialFields |-> @[key]]]
                     ELSE /\ h.calls[n].exc = "KeyError"
                          /\ h.state = "done" /\ h.exc = "KeyError"
                          /\ h.outcomes = g.outcomes
                          /\ audit_log' = audit_log
                          /\ data_store' = data_store]_vars

\* One execution by hr ended with KeyError on the record without age and
\* department, after two outcomes; a second one by hr ran into it again.
C19_Witness ==
    /\ Len(gens) = 2
    /\ \A i \in 1..2 :
          /\ gens[i].data = hr_data
          /\ gens[i].state = "done" /\ gens[i].exc = "KeyError"
          /\ gens[i].outcomes = <<TRUE, TRUE>>
          /\ Len(gens[i].calls) = 3
    /\ DOMAIN data_store["100"] = {"name", "email"}

\* C20: every registration is made after execute was called on the shipped
\* registry, and the pull that calls the n-th step calls the function the
\* registry holds at position n when the pull is made, under the name it
\* holds there; the first pull iterates the registry as it is then, so that
\* an execution which found four steps at its first pull and ran to the end
\* without a failure has run the step under the new name.
C20_PullTime ==
    /\ [](\A i \in 1..Len(gens) :
             (/\ Drained(gens[i]) /\ ~Failed(gens[i])
              /\ gens[i].it_used = Len(ShippedSteps) + 1) =>
                 /\ Len(gens[i].calls) = Len(ShippedSteps) + 1
                 /\ gens[i].calls[Len(ShippedSteps) + 1].name = "audit")
    /\ [][\A i \in 1..Len(gens) :
             LET g == gens[i]
                 h == gens'[i]
                 n == Len(h.calls)
             IN  /\ (g.state = "created" /\ h.state # "created") =>
                        /\ h.it_used = Len(steps)
                        /\ h.exc # "RuntimeError"
                        /\ n = 1
                 /\ n = Len(g.calls) + 1 =>
                        /\ n <= Len(steps)
                        /\ h.calls[n].name = steps[n][1]
                        /\ h.calls[n].func = steps[n][2]]_vars

\* execute(hr_data) was called on the three shipped steps; the execution
\* called, in second place, a function other than the one "get_data" held
\* then, and in fourth place the step under the new name.
C20_Witness ==
    /\ Len(gens) = 1
    /\ Drained(gens[1]) /\ gens[1].data = hr_data
    /\ gens[1].outcomes = <<TRUE, TRUE, TRUE, TRUE>>
    /\ gens[1].calls[2].name = "get_data"
    /\ gens[1].calls[2].func = "validate_user"
    /\ gens[1].calls[3].func = "delete_data"
    /\ gens[1].calls[4].name = "audit"
    /\ ~gens[1].stable

====
